---- MODULE Spec2Model ----
(***************************************************************************)
(* persistqueue/sqlqueue.py: SQLiteQueue, FILOSQLiteQueue and UniqueQ over *)
(* one shared table.  Queue handles are objects of one of these classes;   *)
(* threads call put / get / update / task_done on their handle.  Every     *)
(* statement of the code that touches the table or a shared field of the   *)
(* handle is one step, so that calls of different threads interleave as    *)
(* they do in the program.                                                 *)
(***************************************************************************)
EXTENDS Integers, Sequences, FiniteSets, TLC

\* ---------------------------------------------------------------- bounds
\* rows ever inserted into the table (AUTOINCREMENT keys 1..MaxId)
MaxId == 3
\* longest timeout a caller passes to get, counted in clock quanta
MaxTimeout == 2
\* gets by id are issued while total is above -MaxDebt (such a get in
\* deferred-commit mode lowers total each time it is repeated)
MaxDebt == 1

\* ------------------------------------------------------------- constants
TICK_FOR_WAIT == 10
\* the clock advances in steps of half a poll tick (seconds)
Quantum == TICK_FOR_WAIT \div 2

Items == {"a", "b"}
Variants == {"FIFO", "FILO", "UNIQUE"}
Handles == {"h1", "h2"}
Threads == {"t1", "t2", "t3"}
\* t1 and t2 share handle h1, t3 owns handle h2
HandleOf(t) == IF t = "t3" THEN "h2" ELSE "h1"

\* None as a row id; keys start at 1
NoId == 0
NoRow == [id |-> 0, data |-> <<>>]
NoLock == "none"

\* ------------------------------------------------------------- serializer
\* encode(item) -> bytes, decode(bytes) -> item
Dumps(item) == <<item>>
Loads(obj) == obj[1]

\* ------------------------------------------------------------------ store
Min(S) == CHOOSE x \in S : \A y \in S : x <= y
Max(S) == CHOOSE x \in S : \A y \in S : x >= y

Row(s, i) == [id |-> i, data |-> s[i]]

\* _SQL_SELECT_ID: WHERE key = rowid
SQL_SELECT_ID(s, rowid) == IF rowid \in DOMAIN s THEN Row(s, rowid) ELSE NoRow

\* _SQL_SELECT: ORDER BY key ASC LIMIT 1; FILOSQLiteQueue orders DESC
SQL_SELECT_Reversed(v, s) ==
    IF DOMAIN s = {} THEN NoRow
    ELSE IF v = "FILO" THEN Row(s, Min(DOMAIN s)) ELSE Row(s, Max(DOMAIN s))
SQL_SELECT(v, s) ==
    IF DOMAIN s = {} THEN NoRow
    ELSE IF v = "FILO" THEN Row(s, Max(DOMAIN s)) ELSE Row(s, Min(DOMAIN s))

\* _SQL_SELECT_WHERE: WHERE key > ? ORDER BY key ASC LIMIT 1 (every variant)
SQL_SELECT_WHERE(s, c) ==
    LET after == {i \in DOMAIN s : i > c}
    IN  IF after = {} THEN NoRow ELSE Row(s, Min(after))

\* _SQL_DELETE: DELETE WHERE key {op} ?
SQL_DELETE(s, op, key) ==
    LET gone(i) == IF op = "<=" THEN i <= key ELSE IF op = "<" THEN i < key ELSE i = key
    IN  [i \in {j \in DOMAIN s : ~gone(j)} |-> s[i]]

\* _SQL_UPDATE: UPDATE SET data = ? WHERE key = ?
SQL_UPDATE_NoWhere(s, key, obj) == [i \in DOMAIN s |-> obj]
SQL_UPDATE(s, key, obj) == [i \in DOMAIN s |-> IF i = key THEN obj ELSE s[i]]

\* _SQL_INSERT with the key the AUTOINCREMENT column assigns
SQL_INSERT(s, key, obj) == (key :> obj) @@ s

\* UNIQUE (data) of UniqueQ._SQL_CREATE: would row `key` holding obj clash?
UniqueNotEnforced(v, s, key, obj) == FALSE
UniqueViolated(v, s, key, obj) ==
    v = "UNIQUE" /\ \E j \in DOMAIN s : j # key /\ s[j] = obj

\* SQLBase._select: by id when a rowid is given, else by criteria, else head
Select(v, s, where, c, rowid) ==
    IF rowid # NoId THEN SQL_SELECT_ID(s, rowid)
    ELSE IF where THEN SQL_SELECT_WHERE(s, c)
    ELSE SQL_SELECT(v, s)

\* SQLBase._count
Count(s) == Cardinality(DOMAIN s)

\* ------------------------------------------------------------------ state
VARIABLES
    variant,     \* class of the handles: the table's ordering variant
    auto_commit, \* per handle: self.auto_commit
    active,      \* the threads that run in this configuration
    serial,      \* whether the callers issue their calls one at a time
    items,       \* the items the callers put
    watch,       \* whether the history of returned keys (unacked, owed) is recorded
    store,       \* the table: key -> data
    nextId,      \* next AUTOINCREMENT key
    total,       \* per handle: self.total
    cursor,      \* per handle: self.cursor
    put_event,   \* per handle: self.put_event (threading.Event)
    lock,        \* per handle: holder of self.action_lock
    th,          \* per thread: position and locals of the running call
    res,         \* per thread: what the call that has just ended hands its caller
    hist,        \* history: the item last written to each key by put / update
    unacked,     \* history, per handle: keys its gets returned and no task_done of it followed
    owed,        \* history, per handle: keys its predecessor left unacknowledged
    acked,       \* history: largest cursor a completed task_done deleted up to
    returned,    \* history, per handle: keys the gets of the handle have returned
    my           \* the MySQLQueue run side by side on a store of its own

vars == <<variant, auto_commit, active, serial, items, watch, store, nextId, total, cursor, put_event,
          lock, th, res, hist, unacked, owed, acked, returned, my>>

config == <<variant, auto_commit, active, serial, items, watch>>

\* a thread between calls.  att (dequeue attempts of the call), ack0 (acked
\* when the call began) and early (first key a put of the same handle inserted
\* before the call's deadline) are history.
Idle == [pc |-> "idle", mode |-> "-", rem |-> 0, rowid |-> NoId,
         row |-> NoRow, tmp |-> 0, slice |-> 0, att |-> 0, ack0 |-> 0, early |-> 0]

\* outcomes of a call.  A returned item carries its key whether or not the
\* caller asked for the raw record: raw only chooses the shape of the value.
Result(k, id, data) == [k |-> k, id |-> id, data |-> data]
NoResult == Result("none", NoId, "-")

\* arguments of get: timeout is None or a number of seconds
NoTimeout == [none |-> TRUE, v |-> 0]
Seconds(n) == [none |-> FALSE, v |-> n]
Timeouts == {NoTimeout} \cup {Seconds(k * Quantum) : k \in (0 - 1)..MaxTimeout}
\* id is None, an int, or a raw record (dict) carrying "pqid"
NoIdArg == [kind |-> "none", v |-> NoId]
IdArgs == {NoIdArg} \cup {[kind |-> k, v |-> i] : k \in {"int", "dict"}, i \in 1..MaxId}


\* history is kept for the rows in the table and the rows a call holds
Held(ths, rs) == {ths[t].row.id : t \in Threads} \cup {rs[t].id : t \in Threads}
Forget(hs, s, ths, rs) ==
    [i \in DOMAIN hs |-> IF i \in DOMAIN s \cup Held(ths, rs) THEN hs[i] ELSE "-"]

\* MySQLQueue opened on an empty schema: its table, the AUTO_INCREMENT counter,
\* self.total (the count of the table), self.cursor, and what its last call
\* handed the caller
MyOpened == [store |-> <<>>, nextId |-> 1, total |-> Count(<<>>), cursor |-> 0,
             res |-> NoResult]

Init ==
    /\ variant \in Variants
    /\ auto_commit \in [Handles -> BOOLEAN]
    /\ active \in (SUBSET Threads) \ {{}}
    /\ serial \in BOOLEAN
    /\ items \in (SUBSET Items) \ {{}}
    /\ watch \in BOOLEAN
    /\ store = <<>>
    /\ nextId = 1
    /\ total = [h \in Handles |-> 0]
    /\ cursor = [h \in Handles |-> 0]
    /\ put_event = [h \in Handles |-> FALSE]
    /\ lock = [h \in Handles |-> NoLock]
    /\ th = [t \in Threads |-> Idle]
    /\ res = [t \in Threads |-> NoResult]
    /\ hist = <<>>
    /\ unacked = [h \in Handles |-> {}]
    /\ owed = [h \in Handles |-> {}]
    /\ acked = 0
    /\ returned = [h \in Handles |-> {}]
    /\ my = MyOpened

\* thread t may begin a call
MayCall(t) ==
    /\ t \in active
    /\ th[t].pc = "idle"
    /\ serial => \A u \in Threads : th[u].pc = "idle"

\* the call of thread t ends with result r
Ends(t, r) ==
    /\ res' = [res EXCEPT ![t] = r]
    /\ th' = [th EXCEPT ![t] = [Idle EXCEPT !.pc = "done", !.mode = th[t].mode,
                                            !.rem = th[t].rem, !.att = th[t].att]]

\* the caller has the result and is free to call again
Return(t) ==
    /\ th[t].pc = "done"
    /\ th' = [th EXCEPT ![t] = Idle]
    /\ res' = [res EXCEPT ![t] = NoResult]
    /\ hist' = Forget(hist, store, th', res')
    /\ UNCHANGED <<config, store, nextId, total, cursor, put_event, lock,
                   unacked, owed, acked, returned, my>>

\* -------------------------------------------------------------------- put
\* SQLiteQueue.put / UniqueQ.put, first statement: dumps and _insert_into.
\* UniqueQ.put swallows sqlite3.IntegrityError and returns None.
PutInsert(t, item) ==
    LET h == HandleOf(t)
        obj == Dumps(item)
    IN  /\ MayCall(t)
        /\ IF UniqueViolated(variant, store, NoId, obj)
           THEN /\ Ends(t, Result("noid", NoId, "-"))
                /\ UNCHANGED <<store, nextId, hist>>
           ELSE /\ nextId <= MaxId
                /\ store' = SQL_INSERT(store, nextId, obj)
                /\ nextId' = nextId + 1
                /\ hist' = Append(hist, item)
                /\ th' = [u \in Threads |->
                            IF u = t
                            THEN [Idle EXCEPT !.pc = "put_read",
                                              !.row = [id |-> nextId, data |-> obj]]
                            ELSE IF /\ HandleOf(u) = h
                                    /\ th[u].mode = "timed"
                                    /\ th[u].rem > 0
                                    /\ th[u].early = 0
                                 THEN [th[u] EXCEPT !.early = nextId]
                                 ELSE th[u]]
                /\ res' = res
        /\ UNCHANGED <<config, total, cursor, put_event, lock, unacked, owed, acked, returned>>

\* self.total += 1: the read
PutRead(t) ==
    /\ th[t].pc = "put_read"
    /\ th' = [th EXCEPT ![t].tmp = total[HandleOf(t)], ![t].pc = "put_write"]
    /\ UNCHANGED <<config, store, nextId, total, cursor, put_event, lock, res,
                   hist, unacked, owed, acked, returned, my>>

\* self.total += 1: the write
PutWrite(t) ==
    /\ th[t].pc = "put_write"
    /\ total' = [total EXCEPT ![HandleOf(t)] = th[t].tmp + 1]
    /\ th' = [th EXCEPT ![t].pc = "put_set", ![t].tmp = 0]
    /\ UNCHANGED <<config, store, nextId, cursor, put_event, lock, res,
                   hist, unacked, owed, acked, returned, my>>

\* self.put_event.set(); return _id
PutSet(t) ==
    /\ th[t].pc = "put_set"
    /\ put_event' = [put_event EXCEPT ![HandleOf(t)] = TRUE]
    /\ Ends(t, Result("id", th[t].row.id, "-"))
    /\ UNCHANGED <<config, store, nextId, total, cursor, lock,
                   hist, unacked, owed, acked, returned, my>>

\* -------------------------------------------------------------------- get
\* get, lines 126-131: the row id the id argument names
RowIdOf(a) == IF a.kind \in {"int", "dict"} THEN a.v ELSE NoId

\* get, lines 132-145: the branch block and timeout select
GetModeUnchecked(block, timeout) ==
    IF ~block THEN "nb"
    ELSE IF timeout.none THEN "blk"
    ELSE "timed"
GetMode(block, timeout) ==
    IF ~block THEN "nb"
    ELSE IF timeout.none THEN "blk"
    ELSE IF timeout.v < 0 THEN "invalid"
    ELSE "timed"

\* get, after _pop returned None: raise Empty (block=False) or go on to wait
AfterMissAlwaysWait(mode) == "clear"
AfterMiss(mode) == IF mode = "nb" THEN "raise" ELSE "clear"

\* the length of one wait slice, put_event.wait(...); -1 is a wait without end
WaitSliceWhole(mode, rem) == IF mode = "blk" THEN 0 - 1 ELSE rem
WaitSlice(mode, rem) ==
    IF mode = "blk" THEN TICK_FOR_WAIT
    ELSE IF TICK_FOR_WAIT < rem THEN TICK_FOR_WAIT ELSE rem

\* _pop: the row its _select call returns for this handle
PopRow(h, rowid) ==
    IF auto_commit[h]
    THEN Select(variant, store, FALSE, 0, rowid)
    ELSE Select(variant, store, TRUE, cursor[h], rowid)

\* get(block, timeout, id, raw) up to its first call of _pop
GetStart(t, block, timeout, id) ==
    LET mode == GetMode(block, timeout)
    IN  /\ MayCall(t)
        /\ RowIdOf(id) # NoId => total[HandleOf(t)] > 0 - MaxDebt
        /\ IF mode = "invalid"
           THEN /\ res' = [res EXCEPT ![t] = Result("ValueError", NoId, "-")]
                /\ th' = [th EXCEPT ![t] = [Idle EXCEPT !.pc = "done", !.mode = mode]]
           ELSE /\ res' = res
                /\ th' = [th EXCEPT ![t] =
                            [Idle EXCEPT !.pc = "pop", !.mode = mode,
                                         !.rem = IF mode = "timed" THEN timeout.v ELSE 0,
                                         !.rowid = RowIdOf(id), !.ack0 = acked]]
        /\ UNCHANGED <<config, store, nextId, total, cursor, put_event, lock,
                       hist, unacked, owed, acked, returned>>

\* with self.action_lock: may a thread enter while the lock is in state l?
LockIgnored(l) == TRUE
LockFree(l) == l = NoLock

\* one more dequeue attempt of the call (counted up to 2)
Attempt(n) == IF n < 2 THEN n + 1 ELSE n

\* _pop: take action_lock and select; with no row, release and return None,
\* and get raises Empty (block=False) or goes on to clear the event
PopSelect(t) ==
    LET h == HandleOf(t)
        row == PopRow(h, th[t].rowid)
    IN  /\ th[t].pc = "pop"
        /\ LockFree(lock[h])
        /\ IF row # NoRow
           THEN /\ lock' = [lock EXCEPT ![h] = t]
                /\ th' = [th EXCEPT ![t].pc = "pop_apply", ![t].row = row,
                                    ![t].att = Attempt(@)]
                /\ res' = res
           ELSE IF AfterMiss(th[t].mode) = "raise"
           THEN /\ res' = [res EXCEPT ![t] = Result("Empty", NoId, "-")]
                /\ th' = [th EXCEPT ![t] = [Idle EXCEPT !.pc = "done", !.mode = th[t].mode,
                                                        !.att = Attempt(th[t].att)]]
                /\ lock' = lock
           ELSE /\ th' = [th EXCEPT ![t].pc = "clear", ![t].att = Attempt(@)]
                /\ UNCHANGED <<res, lock>>
        /\ UNCHANGED <<config, store, nextId, total, cursor, put_event,
                       hist, unacked, owed, acked, returned, my>>

\* _pop with a row: delete it (auto_commit) or move the cursor to it; then the
\* read of self.total -= 1
PopApply(t) ==
    LET h == HandleOf(t)
    IN  /\ th[t].pc = "pop_apply"
        /\ IF auto_commit[h]
           THEN /\ store' = SQL_DELETE(store, "=", th[t].row.id)
                /\ cursor' = cursor
           ELSE /\ cursor' = [cursor EXCEPT ![h] = th[t].row.id]
                /\ store' = store
        /\ th' = [th EXCEPT ![t].tmp = total[h], ![t].pc = "pop_write"]
        /\ UNCHANGED <<config, nextId, total, put_event, lock, res,
                       hist, unacked, owed, acked, returned, my>>

\* the value _pop writes back to self.total
PopTotal(tmp) == tmp - 1

\* _pop: the write of self.total -= 1, loads, release action_lock; get returns
PopWrite(t) ==
    LET h == HandleOf(t)
        row == th[t].row
    IN  /\ th[t].pc = "pop_write"
        /\ total' = [total EXCEPT ![h] = PopTotal(th[t].tmp)]
        /\ lock' = [lock EXCEPT ![h] = NoLock]
        /\ Ends(t, Result("item", row.id, Loads(row.data)))
        /\ unacked' = [unacked EXCEPT ![h] =
                          IF auto_commit[h] \/ ~watch THEN @ ELSE @ \cup {row.id}]
        /\ owed' = [owed EXCEPT ![h] = {}]
        /\ returned' = [returned EXCEPT ![h] = IF watch THEN @ \cup {row.id} ELSE @]
        /\ UNCHANGED <<config, store, nextId, cursor, put_event, hist, acked, my>>

\* get, blocking: put_event.clear(); with a timeout, raise Empty once the
\* deadline has passed, else start the wait slice
Clear(t) ==
    LET h == HandleOf(t)
    IN  /\ th[t].pc = "clear"
        /\ put_event' = [put_event EXCEPT ![h] = FALSE]
        /\ IF th[t].mode = "timed" /\ th[t].rem <= 0
           THEN Ends(t, Result("Empty", NoId, "-"))
           ELSE /\ th' = [th EXCEPT ![t].pc = "wait",
                                    ![t].slice = WaitSlice(th[t].mode, th[t].rem)]
                /\ res' = res
        /\ UNCHANGED <<config, store, nextId, total, cursor, lock,
                       hist, unacked, owed, acked, returned, my>>

\* put_event.wait(slice) returns: the event is set, or the slice has run out
WaitWake(t) ==
    /\ th[t].pc = "wait"
    /\ put_event[HandleOf(t)] \/ th[t].slice = 0
    /\ th' = [th EXCEPT ![t].pc = "pop", ![t].slice = 0]
    /\ UNCHANGED <<config, store, nextId, total, cursor, put_event, lock, res,
                   hist, unacked, owed, acked, returned, my>>

\* a thread asleep in put_event.wait
Asleep(t) ==
    /\ th[t].pc = "wait"
    /\ ~put_event[HandleOf(t)]
    /\ th[t].slice # 0

\* the clock advances by one quantum; it does so only while every thread is
\* between calls or asleep (the statements of a call take no time)
Tick ==
    /\ \A t \in Threads : th[t].pc = "idle" \/ Asleep(t)
    /\ \E t \in Threads : Asleep(t) /\ th[t].slice > 0
    /\ th' = [t \in Threads |->
                IF Asleep(t) /\ th[t].slice > 0
                THEN [th[t] EXCEPT !.slice = @ - Quantum,
                                   !.rem = IF th[t].mode = "timed" THEN @ - Quantum ELSE @]
                ELSE th[t]]
    /\ UNCHANGED <<config, store, nextId, total, cursor, put_event, lock, res,
                   hist, unacked, owed, acked, returned, my>>

\* ------------------------------------------------------------------- size
\* the size property (also __len__), qsize() and empty() of handle h
size(h) == total[h]
qsize(h) == IF size(h) > 0 THEN size(h) ELSE 0
empty(h) == size(h) = 0

\* -------------------------------------------------------------- task_done
\* the comparison task_done hands to _delete
TaskDoneOpStrict == "<"
TaskDoneOp == "<="

\* task_done: no-op with auto_commit, else delete every row up to the cursor.
\* It does not take action_lock.
TaskDone(t) ==
    LET h == HandleOf(t)
    IN  /\ MayCall(t)
        /\ IF auto_commit[h]
           THEN UNCHANGED <<store, unacked, acked, returned, my>>
           ELSE /\ store' = SQL_DELETE(store, TaskDoneOp, cursor[h])
                /\ unacked' = [unacked EXCEPT ![h] = @ \cap DOMAIN store']
                /\ acked' = IF cursor[h] > acked THEN cursor[h] ELSE acked
        /\ Ends(t, Result("done", NoId, "-"))
        /\ hist' = Forget(hist, store', th', res')
        /\ UNCHANGED <<config, nextId, total, cursor, put_event, lock, owed, returned>>

\* ----------------------------------------------------------------- update
\* arguments of update: item is a plain item or a raw record (dict) with
\* "pqid" (possibly None) and "data"; id is None or a key
UpdateItems == {[kind |-> "plain", pqid |-> NoId, data |-> p] : p \in Items}
               \cup {[kind |-> "dict", pqid |-> i, data |-> p] : i \in 0..MaxId, p \in Items}
Unbound == 0 - 1

\* update, lines 114-118: the key it settles on (_id); the local is never
\* assigned when item is no raw record and id is None
UpdateId(item, id) ==
    IF id # NoId THEN id
    ELSE IF item.kind = "dict" THEN item.pqid
    ELSE Unbound

\* update(item, id)
Update(t, item, id) ==
    LET key == UpdateId(item, id)
        obj == Dumps(item.data)
    IN  /\ MayCall(t)
        /\ IF key = Unbound
           THEN /\ Ends(t, Result("UnboundLocalError", NoId, "-"))
                /\ UNCHANGED <<store, hist>>
           ELSE IF key = NoId
           THEN /\ Ends(t, Result("ValueError", NoId, "-"))
                /\ UNCHANGED <<store, hist>>
           ELSE IF key \in DOMAIN store /\ UniqueViolated(variant, store, key, obj)
           THEN /\ Ends(t, Result("IntegrityError", key, "-"))
                /\ UNCHANGED <<store, hist>>
           ELSE /\ store' = SQL_UPDATE(store, key, obj)
                /\ hist' = IF key \in DOMAIN store
                           THEN [hist EXCEPT ![key] = item.data] ELSE hist
                /\ Ends(t, Result("updated", key, item.data))
        /\ UNCHANGED <<config, nextId, total, cursor, put_event, lock,
                       unacked, owed, acked, returned, my>>

\* ------------------------------------------------------------------ _init
\* the cursor _init gives a handle opened on table s
InitCursor(v, auto, s) ==
    IF auto \/ SQL_SELECT(v, s) = NoRow THEN 0 ELSE SQL_SELECT(v, s).id - 1

\* the process of handle h dies and a fresh handle is opened on the table:
\* __init__ and _init run again; the calls in flight are gone
Reopen(h) ==
    /\ \E t \in active : HandleOf(t) = h
    /\ serial => \A u \in Threads : th[u].pc = "idle"
    /\ cursor' = [cursor EXCEPT ![h] = InitCursor(variant, auto_commit[h], store)]
    /\ total' = [total EXCEPT ![h] = Count(store)]
    /\ put_event' = [put_event EXCEPT ![h] = FALSE]
    /\ lock' = [lock EXCEPT ![h] = NoLock]
    /\ th' = [t \in Threads |-> IF HandleOf(t) = h THEN Idle ELSE th[t]]
    /\ res' = [t \in Threads |-> IF HandleOf(t) = h THEN NoResult ELSE res[t]]
    /\ owed' = [owed EXCEPT ![h] = unacked[h] \cap DOMAIN store]
    /\ unacked' = [unacked EXCEPT ![h] = {}]
    /\ hist' = Forget(hist, store, th', res')
    /\ returned' = [returned EXCEPT ![h] = {}]
    /\ UNCHANGED <<config, store, nextId, acked, my>>

\* ------------------------------------------------------------- MySQLQueue
\* MySQLQueue.put: dumps, _insert_into, put_event.set(); total is not touched
MyPut(q, item) ==
    [q EXCEPT !.store = SQL_INSERT(q.store, q.nextId, Dumps(item)),
              !.nextId = q.nextId + 1,
              !.res = Result("id", q.nextId, "-")]

\* MySQLQueue.get(block=False): _pop selects the head and deletes it, whatever
\* auto_commit is; neither total nor cursor is touched
MyGet(q) ==
    LET row == Select("FIFO", q.store, FALSE, 0, NoId)
    IN  IF row = NoRow
        THEN [q EXCEPT !.res = Result("Empty", NoId, "-")]
        ELSE [q EXCEPT !.store = SQL_DELETE(q.store, "=", row.id),
                       !.res = Result("item", row.id, Loads(row.data))]

\* MySQLQueue.task_done
MyTaskDone(q, auto) ==
    [q EXCEPT !.store = IF auto THEN q.store ELSE SQL_DELETE(q.store, TaskDoneOp, q.cursor),
              !.res = Result("done", NoId, "-")]

\* the same call made on the SQLiteQueue (thread t1) and on the MySQLQueue
TwinPut ==
    \E item \in items : PutInsert("t1", item) /\ my' = MyPut(my, item)

TwinGet ==
    GetStart("t1", FALSE, NoTimeout, NoIdArg) /\ my' = MyGet(my)

TwinTaskDone ==
    TaskDone("t1") /\ my' = MyTaskDone(my, auto_commit["h1"])

\* ------------------------------------------------------------------ steps
Puts == \E t \in Threads, item \in items : PutInsert(t, item) /\ UNCHANGED my

PutSteps == \E t \in Threads : PutRead(t) \/ PutWrite(t) \/ PutSet(t)

Gets(blocks, timeouts, ids) ==
    \E t \in Threads, block \in blocks, timeout \in timeouts, id \in ids :
        GetStart(t, block, timeout, id) /\ UNCHANGED my

PopSteps == \E t \in Threads : PopSelect(t) \/ PopApply(t) \/ PopWrite(t)

WaitSteps == \E t \in Threads : Clear(t) \/ WaitWake(t)

TaskDones == \E t \in Threads : TaskDone(t) /\ UNCHANGED my

Updates ==
    \E t \in Threads, item \in UpdateItems, id \in 0..MaxId :
        item.data \in items /\ Update(t, item, id)

Reopens == \E h \in Handles : Reopen(h)

Returns == \E t \in Threads : Return(t)

\* ---------------------------------------------------------- specifications
\* calls issued one at a time on one handle: put, get without id, task_done
InitPlain ==
    Init /\ active = {"t1"} /\ auto_commit["h2"] /\ serial /\ items = Items /\ watch

NextPlain ==
    \/ Puts
    \/ PutSteps
    \/ Gets(BOOLEAN, Timeouts, {NoIdArg})
    \/ PopSteps
    \/ WaitSteps
    \/ TaskDones
    \/ Returns
    \/ Tick

SpecPlain == InitPlain /\ [][NextPlain]_vars

\* the same, and the process may die and open the queue again
NextReplay == NextPlain \/ Reopens

SpecReplay == InitPlain /\ [][NextReplay]_vars

\* every operation, calls issued one at a time on one handle
Next ==
    \/ Puts
    \/ PutSteps
    \/ Gets(BOOLEAN, Timeouts, IdArgs)
    \/ PopSteps
    \/ WaitSteps
    \/ TaskDones
    \/ Updates
    \/ Reopens
    \/ Returns
    \/ Tick

Spec == InitPlain /\ [][Next]_vars

\* two handles on the table, one thread each
InitMulti ==
    Init /\ active = {"t1", "t3"} /\ ~auto_commit["h1"] /\ serial /\ items = {"a"} /\ ~watch

NextMulti ==
    \/ Puts
    \/ PutSteps
    \/ Gets({FALSE}, {NoTimeout}, IdArgs)
    \/ PopSteps
    \/ TaskDones
    \/ Reopens
    \/ Returns

SpecMulti == InitMulti /\ [][NextMulti]_vars

\* calls issued one at a time on one handle; the history of returned keys is
\* not recorded
InitSeq ==
    Init /\ active = {"t1"} /\ auto_commit["h2"] /\ serial /\ items = Items /\ ~watch

\* put, every form of get, task_done
NextGet ==
    \/ Puts
    \/ PutSteps
    \/ Gets(BOOLEAN, Timeouts, IdArgs)
    \/ PopSteps
    \/ WaitSteps
    \/ TaskDones
    \/ Returns
    \/ Tick

SpecGet == InitSeq /\ [][NextGet]_vars

\* put, update, non-blocking get with or without id, task_done
NextUpdate ==
    \/ Puts
    \/ PutSteps
    \/ Gets({FALSE}, {NoTimeout}, IdArgs)
    \/ PopSteps
    \/ Updates
    \/ TaskDones
    \/ Returns

SpecUpdate == InitSeq /\ [][NextUpdate]_vars

\* two threads of one FIFO auto_commit handle, calls overlapping: put and
\* blocking get with a timeout
InitRace ==
    /\ Init
    /\ active = {"t1", "t2"}
    /\ ~serial
    /\ variant = "FIFO"
    /\ auto_commit["h1"] /\ auto_commit["h2"]
    /\ items = {"a"}
    /\ ~watch

NextRace ==
    \/ Puts
    \/ PutSteps
    \/ Gets({TRUE}, Timeouts \ {NoTimeout}, {NoIdArg})
    \/ PopSteps
    \/ WaitSteps
    \/ Returns
    \/ Tick

SpecRace == InitRace /\ [][NextRace]_vars

\* thread t1 consumes with blocking gets without timeout; one other thread, of
\* the same handle (t2) or of another handle on the table (t3), produces
InitLive ==
    /\ Init
    /\ active \in {{"t1", "t2"}, {"t1", "t3"}}
    /\ ~serial
    /\ items = {"a"}
    /\ ~watch

Producers == \E t \in {"t2", "t3"}, item \in items : PutInsert(t, item) /\ UNCHANGED my

Consumer == GetStart("t1", TRUE, NoTimeout, NoIdArg) /\ UNCHANGED my

NextLive ==
    \/ Producers
    \/ PutSteps
    \/ Consumer
    \/ PopSteps
    \/ WaitSteps
    \/ Returns
    \/ Tick

\* a call once begun runs on: the statement a thread is at is executed
Running(t) ==
    \/ PutRead(t) \/ PutWrite(t) \/ PutSet(t)
    \/ PopSelect(t) \/ PopApply(t) \/ PopWrite(t)
    \/ Clear(t) \/ WaitWake(t)
    \/ Return(t)

\* every thread keeps being scheduled; and time passes, however many calls
\* the producer issues in between (a call takes no time in this model, so the
\* clock is stopped, again and again, while one runs)
Fairness == (\A t \in Threads : WF_vars(Running(t))) /\ SF_vars(Tick)

SpecLive == InitLive /\ [][NextLive]_vars /\ Fairness

\* a FIFO SQLiteQueue and a MySQLQueue in the same commit mode, each on a store
\* of its own, given the same calls one at a time
InitTwin ==
    /\ Init
    /\ active = {"t1"}
    /\ variant = "FIFO"
    /\ auto_commit["h2"]
    /\ serial
    /\ items = Items
    /\ ~watch

NextTwin ==
    \/ TwinPut
    \/ TwinGet
    \/ TwinTaskDone
    \/ PutSteps
    \/ PopSteps
    \/ Returns

SpecTwin == InitTwin /\ [][NextTwin]_vars

\* the same calls, with the keys returned recorded
SpecAck == InitPlain /\ [][NextUpdate]_vars

\* two threads of one handle, calls overlapping: put, non-blocking get without
\* id, task_done; the keys returned are recorded
InitShare ==
    /\ Init
    /\ active = {"t1", "t2"}
    /\ ~serial
    /\ auto_commit["h2"]
    /\ items = {"a"}
    /\ watch

NextShare ==
    \/ Puts
    \/ PutSteps
    \/ Gets({FALSE}, {NoTimeout}, {NoIdArg})
    \/ PopSteps
    \/ TaskDones
    \/ Returns

SpecShare == InitShare /\ [][NextShare]_vars

\* ------------------------------------------------------------------ claims
\* a call of thread t has just ended with a returned item
Got(t) == th[t].pc = "done" /\ res[t].k = "item"

\* C1: FIFO queue, auto_commit, one handle, calls one at a time: the k-th get
\* returns the k-th item put (ascending key), its row is gone from the table
\* with every earlier one, and size is the number of rows left, so 0 after as
\* many gets as puts.
C1_FifoOrder ==
    (variant = "FIFO" /\ auto_commit["h1"] /\ Got("t1")) =>
        LET k == res["t1"].id
        IN  /\ DOMAIN store = (k + 1)..(nextId - 1)
            /\ res["t1"].data = hist[k]
            /\ total["h1"] = nextId - 1 - k
            /\ (k = nextId - 1 => total["h1"] = 0 /\ store = <<>>)

\* two puts and two gets later the queue is empty again
C1_Witness ==
    /\ variant = "FIFO" /\ auto_commit["h1"]
    /\ Got("t1") /\ res["t1"].id = 2 /\ nextId = 3
    /\ store = <<>> /\ total["h1"] = 0

\* C2: FILO queue, either commit mode: the row a get without id takes is the
\* present, not yet returned row with the largest key.
C2_FiloTakesNewest ==
    variant = "FILO" =>
        \A t \in Threads :
            th[t].pc = "pop_apply" =>
                th[t].row.id = Max(DOMAIN store \ unacked[HandleOf(t)])

\* C3: unique queue: no two rows of the table hold the same data, and a put
\* whose encoded item is in the table (consumed rows included) changes
\* neither the table nor total nor the wake signal, and returns no id.
C3_UniqueRows ==
    variant = "UNIQUE" =>
        \A i, j \in DOMAIN store : store[i] = store[j] => i = j

C3_DuplicatePutIsNoOp ==
    /\ []C3_UniqueRows
    /\ [][\A t \in Threads, item \in Items :
            (/\ variant = "UNIQUE"
             /\ \E i \in DOMAIN store : store[i] = Dumps(item)
             /\ PutInsert(t, item))
            => /\ UNCHANGED <<store, nextId, total, cursor, put_event>>
               /\ th'[t].pc = "done"
               /\ res'[t] = Result("noid", NoId, "-")]_vars

\* a duplicate was refused although every row of the table had been consumed
C3_Witness ==
    /\ variant = "UNIQUE" /\ ~auto_commit["h1"]
    /\ th["t1"].pc = "done" /\ res["t1"].k = "noid"
    /\ Cardinality(DOMAIN store) = 2
    /\ \A i \in DOMAIN store : i <= cursor["h1"]

\* C4: deferred-commit mode: a fresh handle's first get returns the oldest
\* record its predecessor returned without a task_done after it, and does not
\* fail with Empty while such a record is owed.
C4_ReplaysOldestUnacked ==
    \A t \in Threads :
        LET h == HandleOf(t)
        IN  (~auto_commit[h] /\ owed[h] # {}) =>
                /\ th[t].pc = "pop_apply" => th[t].row.id = Min(owed[h])
                /\ th[t].pc = "done" => res[t].k # "Empty"

\* C5: deferred-commit mode: once a task_done has deleted up to cursor c, no
\* row with a key <= c is in the table, and a get begun afterwards, on any
\* handle, with or without id, takes no such row.
C5_AckedNeverReturned ==
    /\ \A i \in DOMAIN store : i > acked
    /\ \A t \in Threads :
           th[t].pc \in {"pop_apply", "pop_write"} => th[t].row.id > th[t].ack0
    /\ \A t \in Threads : Got(t) => res[t].id > acked

\* handle h1 acknowledged record 1; handle h2 then got a later record
C5_Witness ==
    /\ acked >= 1
    /\ Got("t3") /\ res["t3"].id > acked
    /\ cursor["h1"] = acked

\* C6: a get with block=False that finds no row fails with Empty after its one
\* dequeue attempt: it never clears or waits on the wake signal, and the
\* failing step changes neither the table nor total nor cursor.
C6_NeverWaits ==
    \A t \in Threads :
        th[t].mode = "nb" =>
            /\ th[t].pc \notin {"clear", "wait"}
            /\ (th[t].pc = "done" /\ res[t].k = "Empty") => th[t].att = 1

C6_NonBlockingEmpty ==
    /\ []C6_NeverWaits
    /\ [][\A t \in Threads :
            (/\ th[t].mode = "nb"
             /\ PopRow(HandleOf(t), th[t].rowid) = NoRow
             /\ PopSelect(t))
            => /\ UNCHANGED <<store, nextId, total, cursor, put_event, lock>>
               /\ th[t].att = 0
               /\ th'[t].pc = "done"
               /\ res'[t] = Result("Empty", NoId, "-")]_vars

\* Empty from a non-blocking get in deferred-commit mode while the table still
\* holds a (consumed) row
C6_Witness ==
    /\ th["t1"].pc = "done" /\ th["t1"].mode = "nb" /\ res["t1"].k = "Empty"
    /\ store # <<>>
    /\ total["h1"] = 0

\* C9: get(block=True, timeout < 0) raises ValueError before any dequeue
\* attempt, whatever the table holds: nothing is returned or deleted, and total
\* and cursor stay.
C9_NoAttempt ==
    \A t \in Threads :
        (th[t].pc = "done" /\ res[t].k = "ValueError" /\ th[t].mode # "-") =>
            th[t].att = 0 /\ th[t].mode = "invalid"

C9_NegativeTimeout ==
    /\ []C9_NoAttempt
    /\ [][\A t \in Threads, timeout \in Timeouts, id \in IdArgs :
            (~timeout.none /\ timeout.v < 0 /\ GetStart(t, TRUE, timeout, id))
            => /\ UNCHANGED <<store, nextId, total, cursor, put_event, lock>>
               /\ th'[t].pc = "done"
               /\ res'[t] = Result("ValueError", NoId, "-")]_vars

\* ValueError from get on a queue that holds a record it could have returned
C9_Witness ==
    /\ th["t1"].pc = "done" /\ th["t1"].mode = "invalid" /\ res["t1"].k = "ValueError"
    /\ PopRow("h1", NoId) # NoRow

\* C7: a blocking get with timeout > 0 during which another thread of the same
\* handle puts a record strictly before the deadline takes that record while
\* time is left, and does not fail with Empty while the record is in the table.
C7_ReturnsBeforeDeadline ==
    \A t \in Threads :
        (th[t].mode = "timed" /\ th[t].early # 0) =>
            /\ (th[t].pc = "pop_apply" /\ th[t].row.id = th[t].early) => th[t].rem > 0
            /\ (th[t].pc = "done" /\ res[t].k = "Empty") => th[t].early \notin DOMAIN store

\* C8: a blocking get without timeout never fails with Empty and ends only with
\* an item; each of its waits is a slice of at most the poll tick; and while a
\* record it can dequeue is in the table, it eventually returns one.
C8_Safe ==
    \A t \in Threads :
        th[t].mode = "blk" =>
            /\ th[t].pc = "done" => res[t].k = "item"
            /\ th[t].pc = "wait" => th[t].slice \in 0..TICK_FOR_WAIT

C8_Pending ==
    /\ th["t1"].mode = "blk"
    /\ th["t1"].pc \in {"pop", "clear", "wait"}
    /\ PopRow("h1", th["t1"].rowid) # NoRow

C8_BlockingGet ==
    /\ []C8_Safe
    /\ (C8_Pending ~> Got("t1"))

\* the consumer sleeps in a wait slice, its wake signal clear, while a record
\* put through the other handle is in the table
C8_Witness ==
    /\ active = {"t1", "t3"}
    /\ C8_Pending
    /\ Asleep("t1")
    /\ th["t1"].slice = TICK_FOR_WAIT
    /\ th["t3"].pc = "idle"

\* C10: update with a key that is in the table (from the raw record or the id
\* argument), and, in the unique variant, with a payload no other row holds,
\* overwrites that row's payload and nothing else: same keys, other rows, total
\* and cursor unchanged; a later get by that id returns the payload last
\* written to the row.
C10_RowsHoldLastWritten ==
    /\ \A i \in DOMAIN store : store[i] = Dumps(hist[i])
    /\ \A t \in Threads :
           /\ (th[t].pc \in {"pop_apply", "pop_write"} /\ th[t].rowid # NoId) =>
                  /\ th[t].row.id = th[t].rowid
                  /\ th[t].row.data = Dumps(hist[th[t].rowid])
           /\ Got(t) => res[t].data = hist[res[t].id]

C10_UpdateOverwrites ==
    /\ []C10_RowsHoldLastWritten
    /\ [][\A t \in Threads, item \in UpdateItems, id \in 0..MaxId :
            LET key == UpdateId(item, id)
                obj == Dumps(item.data)
            IN  (/\ key \in DOMAIN store
                 /\ variant = "UNIQUE" => \A j \in DOMAIN store : j # key => store[j] # obj
                 /\ Update(t, item, id))
                => /\ store' = [store EXCEPT ![key] = obj]
                   /\ hist'[key] = item.data
                   /\ res'[t] = Result("updated", key, item.data)
                   /\ UNCHANGED <<nextId, total, cursor, put_event>>]_vars

\* an update has overwritten a consumed row of a unique queue that holds a
\* second row
C10_Witness ==
    /\ variant = "UNIQUE"
    /\ th["t1"].pc = "done" /\ res["t1"].k = "updated"
    /\ Cardinality(DOMAIN store) = 2
    /\ res["t1"].id \in DOMAIN store
    /\ store[res["t1"].id] = Dumps(res["t1"].data)
    /\ res["t1"].id <= cursor["h1"]

\* C10 as stated, for every variant and payload: update with a key that is in
\* the table always leaves the new payload in that row.
C10_AnyPayload ==
    [][\A t \in Threads, item \in UpdateItems, id \in 0..MaxId :
            LET key == UpdateId(item, id)
            IN  (key \in DOMAIN store /\ Update(t, item, id))
                => store'[key] = Dumps(item.data)]_vars

\* C11: update with no key to be had from either argument (a plain item or a
\* raw record whose id is None, and id=None) raises ValueError, no other
\* error, and leaves the table as it was.
C11_NoIdIsValueError ==
    [][\A t \in Threads, item \in UpdateItems :
            (item.pqid = NoId /\ Update(t, item, NoId))
            => /\ res'[t] = Result("ValueError", NoId, "-")
               /\ store' = store]_vars

\* C12: threads of one handle, gets without id, either commit mode: the row a
\* get takes is never one an earlier get of the handle returned, and two gets
\* in progress never hold the same row.
C12_AtMostOnce ==
    /\ \A t \in Threads :
           th[t].pc \in {"pop_apply", "pop_write"} =>
               th[t].row.id \notin returned[HandleOf(t)]
    /\ \A t, u \in Threads :
           (/\ t # u
            /\ HandleOf(t) = HandleOf(u)
            /\ th[t].pc \in {"pop_apply", "pop_write"}
            /\ th[u].pc \in {"pop_apply", "pop_write"})
           => th[t].row.id # th[u].row.id

\* both threads of the handle have returned from a get, each with a record of
\* its own
C12_Witness ==
    /\ Got("t1") /\ Got("t2")
    /\ res["t1"].id # res["t2"].id
    /\ returned["h1"] = {res["t1"].id, res["t2"].id}

\* C13: size and qsize of a handle are never negative and agree, and empty
\* holds exactly when they are 0.
C13_SizesAgree ==
    \A h \in Handles :
        /\ size(h) >= 0
        /\ qsize(h) >= 0
        /\ size(h) = qsize(h)
        /\ empty(h) <=> qsize(h) = 0

\* C14: deferred-commit mode: every row a task_done deletes is one a get of
\* the handle has returned.
C14_DeletesOnlyReturned ==
    [][\A t \in Threads :
            TaskDone(t) => (DOMAIN store \ DOMAIN store') \subseteq returned[HandleOf(t)]]_vars

\* C15: one handle, calls one at a time: between calls total is the number of
\* rows in the table no get has returned yet, counted as the claim counts them
\* (every row with auto_commit, the rows above the cursor in deferred-commit
\* mode) or as the rows whose key no get of the handle has returned.
C15_Pending(h) ==
    IF auto_commit[h] THEN Count(store)
    ELSE Cardinality({i \in DOMAIN store : i > cursor[h]})

C15_TotalIsPending ==
    (\A t \in Threads : th[t].pc \in {"idle", "done"}) =>
        \/ total["h1"] = C15_Pending("h1")
        \/ total["h1"] = Cardinality(DOMAIN store \ returned["h1"])

\* C16: threads of one handle, calls overlapping: once every call has
\* returned, total is the number of successful puts minus the number of
\* successful gets (the handle was opened on an empty table).
C16_NoLostUpdate ==
    (\A t \in Threads : th[t].pc \in {"idle", "done"}) =>
        total["h1"] = (nextId - 1) - Cardinality(returned["h1"])

\* C17: no consumer sleeps in a wait slice, the wake signal of its handle
\* clear, while a record it could dequeue is in the table and every put of the
\* handle has got as far as setting the signal.
C17_NoLostWakeup ==
    \A t \in Threads :
        (/\ Asleep(t)
         /\ \A u \in Threads :
                HandleOf(u) = HandleOf(t) => th[u].pc \notin {"put_read", "put_write", "put_set"})
        => PopRow(HandleOf(t), th[t].rowid) = NoRow

\* C18: deferred-commit mode: no step of put, get, update or task_done lowers
\* the cursor of a handle, and a get without id that finds a row moves the
\* cursor to the smallest key above it and leaves the row in the table.
C18_CursorMonotonic ==
    [][\A t \in Threads :
            LET h == HandleOf(t)
            IN  ~auto_commit[h] =>
                    /\ cursor'[h] >= cursor[h]
                    /\ (PopApply(t) /\ th[t].rowid = NoId) =>
                           /\ cursor'[h] = Min({i \in DOMAIN store : i > cursor[h]})
                           /\ store' = store]_vars

\* C19: a handle opened on a table of n rows has size n; n rows are there for
\* its gets to take (in deferred-commit mode: n rows above its cursor); and the
\* row its first get selects is the head of the table for the ordering variant.
C19_OpenOnRows ==
    [][\A h \in Handles :
            Reopen(h) =>
                LET n == Count(store)
                    first == IF auto_commit[h]
                             THEN Select(variant, store', FALSE, 0, NoId)
                             ELSE Select(variant, store', TRUE, cursor'[h], NoId)
                IN  /\ total'[h] = n
                    /\ ~auto_commit[h] => Cardinality({i \in DOMAIN store' : i > cursor'[h]}) = n
                    /\ first = SQL_SELECT(variant, store)]_vars

\* C20: a MySQLQueue and a FIFO SQLiteQueue in the same commit mode, given the
\* same puts, non-blocking gets and task_dones from empty stores: between
\* calls their tables hold the same rows and their sizes are equal, and every
\* call hands both callers the same result.
C20_SameSemantics ==
    th["t1"].pc \in {"idle", "done"} =>
        /\ store = my.store
        /\ size("h1") = my.total
        /\ th["t1"].pc = "done" => res["t1"] = my.res

====
